---- MODULE Spec2Model ----
(***************************************************************************)
(* Model of src/api.py: the Sephora product recommender.                   *)
(*                                                                         *)
(* State: the module globals products_df, reviews_df, tfidf_vectorizer and *)
(* product_features_matrix, the position of load_and_preprocess_data, the  *)
(* data files on disk, and the response of the last request.               *)
(*                                                                         *)
(* Representation.                                                         *)
(*   text       a sequence of one-character strings; NaNText is a missing  *)
(*              cell (pandas NaN)                                          *)
(*   rating     tenths of a star (48 is 4.8); NaN is a missing cell        *)
(*   sentiment  hundredths (30 is 0.30)                                    *)
(*   scores     similarity and composite score in 1/10000 (10000 is 1.0)   *)
(*   DataFrame  [columns, rows]; every row carries its index label idx;    *)
(*              of the derived columns, those a request reads are kept     *)
(***************************************************************************)
EXTENDS Integers, Sequences, FiniteSets, TLC

\* ------------------------------------------------------------------ bounds
\* Largest positive limit a request asks for below the default.
MaxTopN == 3
\* Most negative limit a request asks for is -MaxNegTopN.
MaxNegTopN == 2

\* ------------------------------------------------------- program constants
DefaultTopN == 12
MinDf == 2
\* max_df = 0.8, kept as a fraction MaxDfNum / MaxDfDen
MaxDfNum == 8
MaxDfDen == 10
TrendingLimit == 20
\* final_rating >= 4.0, in tenths
TrendingMinRating == 40
TrendingMinReviews == 50
DefaultReviewLimit == 5

\* --------------------------------------------------------------- text
NaNText == <<"NaN">>
NaN == -999999

\* pd.isna of a text cell, and of a numeric cell
isna(text) == text = NaNText
isnan(x) == x = NaN

UpperChars == <<"A","B","C","D","E","F","G","H","I","J","K","L","M",
                "N","O","P","Q","R","S","T","U","V","W","X","Y","Z">>
LowerChars == <<"a","b","c","d","e","f","g","h","i","j","k","l","m",
                "n","o","p","q","r","s","t","u","v","w","x","y","z">>
DigitChars == {"0","1","2","3","4","5","6","7","8","9"}

IsUpper(c) == \E i \in 1..Len(UpperChars) : UpperChars[i] = c
IsLower(c) == \E i \in 1..Len(LowerChars) : LowerChars[i] = c
IsSpace(c) == c = " "
\* [a-zA-Z0-9]
IsAlnum(c) == IsUpper(c) \/ IsLower(c) \/ c \in DigitChars

\* str.lower(), one character
LowerChar(c) ==
    IF IsUpper(c)
    THEN LowerChars[CHOOSE i \in 1..Len(UpperChars) : UpperChars[i] = c]
    ELSE c

\* str.lower()
lower(s) == [i \in 1..Len(s) |-> LowerChar(s[i])]

\* re.sub(r'[^a-zA-Z0-9\s]', ' ', text)
ReplaceSpecial(s) ==
    [i \in 1..Len(s) |-> IF IsAlnum(s[i]) \/ IsSpace(s[i]) THEN s[i] ELSE " "]

RECURSIVE SplitAcc(_, _, _)
SplitAcc(s, cur, acc) ==
    IF s = <<>>
    THEN (IF cur = <<>> THEN acc ELSE Append(acc, cur))
    ELSE IF IsSpace(Head(s))
         THEN SplitAcc(Tail(s), <<>>, IF cur = <<>> THEN acc ELSE Append(acc, cur))
         ELSE SplitAcc(Tail(s), Append(cur, Head(s)), acc)

\* str.split(): the maximal runs of non-whitespace
split(s) == SplitAcc(s, <<>>, <<>>)

RECURSIVE join(_, _)
\* sep.join(words)
join(sep, words) ==
    IF words = <<>> THEN <<>>
    ELSE IF Len(words) = 1 THEN words[1]
    ELSE words[1] \o sep \o join(sep, Tail(words))

\* clean_text: '' for a missing or empty cell, else lower-cased, every
\* character outside [a-zA-Z0-9\s] replaced by a space, whitespace collapsed.
clean_text(text) ==
    IF isna(text) \/ text = <<>> THEN <<>>
    ELSE join(<<" ">>, split(ReplaceSpecial(lower(text))))

\* ------------------------------------------------------- TF-IDF index
\* A subset of the 'english' stop-word list of the vectorizer.
StopWords == { <<"t","h","e">>, <<"a","n","d">>, <<"f","o","r">>,
               <<"a","l","l">>, <<"o","f">> }

\* token_pattern (?u)\b\w\w+\b on cleaned text: words of two or more
\* characters; then the stop words are removed.
tokenize(doc) ==
    SelectSeq(SelectSeq(split(lower(ReplaceSpecial(doc))), LAMBDA w : Len(w) >= 2),
              LAMBDA w : w \notin StopWords)

\* ngram_range=(1, 2): the unigrams, then the bigrams of adjacent tokens
ngrams(tokens) ==
    tokens \o [i \in 1..(Len(tokens) - 1) |-> tokens[i] \o <<" ">> \o tokens[i + 1]]

analyze(doc) == ngrams(tokenize(doc))

TermSet(terms) == { terms[i] : i \in 1..Len(terms) }
TermCount(t, terms) == Cardinality({ i \in 1..Len(terms) : terms[i] = t })

RECURSIVE Log2Floor(_)
Log2Floor(n) == IF n < 2 THEN 0 ELSE 1 + Log2Floor(n \div 2)

RECURSIVE Pow2(_)
Pow2(k) == IF k = 0 THEN 1 ELSE 2 * Pow2(k - 1)

\* np.log / np.log1p: 1000 * ln(n) for n >= 1, within 1/1000, from
\* ln(n) = k ln(2) + 2 atanh((n - 2^k) / (n + 2^k))
ln_milli(n) ==
    LET k  == Log2Floor(n)
        p  == Pow2(k)
        y  == ((n - p) * 100000) \div (n + p)
        y2 == (y * y) \div 100000
        y3 == (y2 * y) \div 100000
        y5 == (y3 * y2) \div 100000
        y7 == (y5 * y2) \div 100000
    IN  (k * 69315 + 2 * (y + y3 \div 3 + y5 \div 5 + y7 \div 7) + 50) \div 100

RECURSIVE IsqrtBS(_, _, _)
IsqrtBS(n, lo, hi) ==
    IF lo >= hi THEN lo
    ELSE LET mid == (lo + hi + 1) \div 2
         IN  IF mid * mid <= n THEN IsqrtBS(n, mid, hi) ELSE IsqrtBS(n, lo, mid - 1)

\* floor(sqrt(n))
Isqrt(n) == IsqrtBS(n, 0, 46340)

RECURSIVE SumSeq(_)
\* the sum of the elements, by halves
SumSeq(s) ==
    IF s = <<>> THEN 0
    ELSE IF Len(s) = 1 THEN s[1]
    ELSE LET half == Len(s) \div 2
         IN  SumSeq(SubSeq(s, 1, half)) + SumSeq(SubSeq(s, half + 1, Len(s)))

\* norm='l2': the vector divided by its Euclidean norm, components in
\* 1/10000; the zero vector stays zero.
l2_normalize(v) ==
    LET norm == Isqrt(SumSeq([k \in 1..Len(v) |-> v[k] * v[k]]))
    IN  IF norm = 0 THEN [k \in 1..Len(v) |-> 0]
        ELSE [k \in 1..Len(v) |-> (v[k] * 10000) \div norm]

\* document frequency of term t in the analyzed corpus
DocFreq(t, docs) == Cardinality({ i \in 1..Len(docs) : t \in TermSet(docs[i]) })

RECURSIVE Flatten(_)
Flatten(docs) == IF docs = <<>> THEN <<>> ELSE Head(docs) \o Flatten(Tail(docs))

\* acc, then the distinct terms not in acc, each at its first occurrence
Dedup(terms, acc) ==
    LET firsts == SelectSeq([i \in 1..Len(terms) |-> i], LAMBDA i :
                      /\ terms[i] \notin TermSet(acc)
                      /\ \A j \in 1..(i - 1) : terms[j] # terms[i])
    IN  acc \o [k \in 1..Len(firsts) |-> terms[firsts[k]]]

\* vocabulary_: the terms kept by min_df=2 (a count) and max_df=0.8 (a
\* proportion of the corpus), one matrix column each. The columns are in
\* order of first occurrence; no result depends on their order.
Vocabulary(docs) ==
    SelectSeq(Dedup(Flatten(docs), <<>>), LAMBDA t :
        /\ DocFreq(t, docs) >= MinDf
        /\ DocFreq(t, docs) * MaxDfDen <= MaxDfNum * Len(docs))

\* smooth idf, in 1/1000: ln((1 + N) / (1 + df)) + 1
Idf(n, df) == ln_milli(1 + n) - ln_milli(1 + df) + 1000

\* one row of the matrix: tf * idf over the vocabulary, l2-normalized
TfidfRow(terms, vocab, idf) ==
    l2_normalize([k \in 1..Len(vocab) |-> TermCount(vocab[k], terms) * idf[k]])

\* fit_transform raises ValueError on an empty vocabulary, when
\* max_df * N < min_df, and when no term survives the pruning.
FitRaises(corpus) ==
    LET docs == [i \in 1..Len(corpus) |-> analyze(corpus[i])]
    IN  \/ Flatten(docs) = <<>>
        \/ MaxDfNum * Len(docs) < MinDf * MaxDfDen
        \/ Vocabulary(docs) = <<>>

\* TfidfVectorizer(...) before fit: line 120 assigns it to the global
UnfittedVectorizer == [fitted |-> FALSE, vocabulary |-> <<>>, idf |-> <<>>]

\* the fitted vectorizer and the feature matrix, one row per corpus document
fit_transform(corpus) ==
    LET docs  == [i \in 1..Len(corpus) |-> analyze(corpus[i])]
        vocab == Vocabulary(docs)
        idf   == [k \in 1..Len(vocab) |-> Idf(Len(docs), DocFreq(vocab[k], docs))]
    IN  [vectorizer |-> [fitted |-> TRUE, vocabulary |-> vocab, idf |-> idf],
         matrix     |-> [i \in 1..Len(docs) |-> TfidfRow(docs[i], vocab, idf)]]

\* tfidf_vectorizer.transform([query]): terms outside the vocabulary are
\* dropped, the same idf weights and normalization apply
transform(vectorizer, query) ==
    TfidfRow(analyze(query), vectorizer.vocabulary, vectorizer.idf)

\* cosine_similarity of two rows, in 1/10000; 0 for a zero vector
cosine_similarity(q, d) ==
    LET qn == l2_normalize(q)
        dn == l2_normalize(d)
    IN  SumSeq([k \in 1..Len(qn) |-> qn[k] * dn[k]]) \div 10000

\* ------------------------------------------------------ files on disk
\* Rows of data/product_info.csv as read_csv returns them: an empty cell is
\* NaN, the index labels are 0..n-1.
RawProduct(id, name, brand, primary, secondary, ingr, rating, reviews, price) ==
    [product_id |-> id, product_name |-> name, brand_name |-> brand,
     primary_category |-> primary, secondary_category |-> secondary,
     ingredients |-> ingr, rating |-> rating, reviews |-> reviews,
     price_usd |-> price]

ProductInfoFull ==
    << RawProduct("P1", <<"H","y","d","r","a","t","i","n","g"," ","S","e","r","u","m">>, <<"A","v","a">>, <<"S","k","i","n","c","a","r","e">>, NaNText,
                  <<"a","q","u","a">>, 48, 120, 30),
       RawProduct("P0", NaNText, <<"B","o">>, <<"S","k","i","n","c","a","r","e">>, <<"M","a","s","k","s">>,
                  NaNText, 40, 60, 15),
       RawProduct("P2", <<"M","a","t","t","i","f","y","i","n","g"," ","G","e","l">>, <<"B","o">>, NaNText, NaNText,
                  NaNText, 30, 10, 15),
       RawProduct("P3", <<"H","y","d","r","a","t","i","n","g"," ","C","r","e","a","m">>, NaNText, <<"S","k","i","n","c","a","r","e">>, NaNText,
                  NaNText, NaN, NaN, 40),
       RawProduct("P4", <<"S","e","r","u","m"," ","H","y","d","r","a","t","i","n","g">>, <<"A","v","a">>, <<"S","k","i","n","c","a","r","e">>, NaNText,
                  NaNText, 48, 120, NaN) >>

\* two products only: max_df * N < min_df, so the fit raises
ProductInfoTiny == << ProductInfoFull[1], ProductInfoFull[3] >>

ReviewRow(id, rating, text) ==
    [product_id |-> id, rating |-> rating, review_text |-> text]

\* data/reviews_*.csv in sorted order
ReviewFilesFull ==
    << << ReviewRow("P2", 30, <<"b","a","d">>), ReviewRow("P9", 50, <<"g","o","o","d">>) >>,
       << ReviewRow("P2", 40, NaNText), ReviewRow("P3", 50, <<"g","o","o","d">>) >> >>

\* The catalog of three products: the listing, and reviews that aggregate
\* to rating 4.8 / 120 reviews / sentiment 0.3, to 3.0 / 10 / -0.1 and to
\* 4.0 / 500 / 0.1.
ProductInfoScenario ==
    << RawProduct("S1", <<"H","y","d","r","a","t","i","n","g"," ","S","e","r","u","m">>, <<"A">>, NaNText, NaNText,
                  NaNText, 48, 120, 30),
       RawProduct("S2", <<"M","a","t","t","i","f","y","i","n","g"," ","G","e","l">>, <<"B">>, NaNText, NaNText,
                  NaNText, 30, 10, 15),
       RawProduct("S3", <<"H","y","d","r","a","t","i","n","g"," ","C","r","e","a","m">>, <<"A">>, NaNText, NaNText,
                  NaNText, 40, 500, 40) >>

ReviewFilesScenario ==
    << [k \in 1..120 |->
          ReviewRow("S1", IF k <= 96 THEN 50 ELSE 40,
                    IF k <= 36 THEN <<"p","e","r","f","e","c","t">> ELSE NaNText)]
       \o [k \in 1..10 |->
          ReviewRow("S2", 30, IF k = 1 THEN <<"t","e","r","r","i","b","l","e">> ELSE NaNText)],
       [k \in 1..500 |->
          ReviewRow("S3", 40, IF k <= 50 THEN <<"p","e","r","f","e","c","t">> ELSE NaNText)] >>

\* A catalog with more products above the trending thresholds than the
\* trending list holds: 22 listed with a rating of 4.0 to 4.9 and 50 to 70
\* reviews, several with the same rating and count, one rated 3.9, one with
\* 49 reviews; none of them is reviewed in the review files.
ManyIds ==
    << "M01", "M02", "M03", "M04", "M05", "M06", "M07", "M08",
       "M09", "M10", "M11", "M12", "M13", "M14", "M15", "M16",
       "M17", "M18", "M19", "M20", "M21", "M22", "M23", "M24" >>

ProductInfoMany ==
    [k \in 1..Len(ManyIds) |->
        RawProduct(ManyIds[k],
                   IF k % 2 = 1 THEN <<"S","e","r","u","m">> ELSE <<"G","e","l">>,
                   <<"X">>, NaNText, NaNText, NaNText,
                   IF k = 23 THEN 39 ELSE IF k = 24 THEN 50 ELSE 40 + 3 * (k % 4),
                   IF k = 23 THEN 500 ELSE IF k = 24 THEN 49 ELSE 50 + 10 * (k % 3),
                   10 + k)]

ReviewFilesMany == << << ReviewRow("P9", 50, <<"g","o","o","d">>) >> >>

\* reviews of the catalog of ProductInfoFull with empty rating cells: P1 has
\* one review and it has no rating, P2 a rated and an unrated one, P3 and P4
\* have none
ReviewFilesUnrated ==
    << << ReviewRow("P1", NaN, <<"g","o","o","d">>),
          ReviewRow("P2", 40, <<"b","a","d">>),
          ReviewRow("P2", NaN, NaNText) >> >>

Disk(exists, products, review_files) ==
    [product_info_exists |-> exists, product_info |-> products,
     review_files |-> review_files]

\* the data directories the process may be started in, by name
Disks == {"full", "no_product_info", "no_review_files", "two_products",
          "no_products"}

\* the files of a data directory
Files(name) ==
    CASE name = "full" -> Disk(TRUE, ProductInfoFull, ReviewFilesFull)
      [] name = "no_product_info" -> Disk(FALSE, <<>>, ReviewFilesFull)
      [] name = "no_review_files" -> Disk(TRUE, ProductInfoFull, <<>>)
      [] name = "two_products" -> Disk(TRUE, ProductInfoTiny, ReviewFilesFull)
      [] name = "no_products" -> Disk(TRUE, <<>>, ReviewFilesFull)
      [] name = "scenario" -> Disk(TRUE, ProductInfoScenario, ReviewFilesScenario)
      [] name = "many" -> Disk(TRUE, ProductInfoMany, ReviewFilesMany)
      [] name = "unrated" -> Disk(TRUE, ProductInfoFull, ReviewFilesUnrated)

\* ---------------------------------------------------------- DataFrames
ProductColumnsRaw ==
    {"product_id", "product_name", "brand_name", "primary_category",
     "secondary_category", "ingredients", "rating", "reviews", "price_usd"}

\* pd.read_csv('data/product_info.csv')
read_products(rows) ==
    [columns |-> ProductColumnsRaw,
     rows |-> [i \in 1..Len(rows) |->
                 [product_id |-> rows[i].product_id,
                  product_name |-> rows[i].product_name,
                  brand_name |-> rows[i].brand_name,
                  primary_category |-> rows[i].primary_category,
                  secondary_category |-> rows[i].secondary_category,
                  ingredients |-> rows[i].ingredients,
                  rating |-> rows[i].rating,
                  reviews |-> rows[i].reviews,
                  price_usd |-> rows[i].price_usd,
                  idx |-> i - 1,
                  combined_features |-> NaNText,
                  final_rating |-> NaN, final_review_count |-> NaN,
                  avg_sentiment |-> NaN]]]

RECURSIVE concat(_)
\* pd.concat(review_dfs, ignore_index=True)
concat(files) == IF files = <<>> THEN <<>> ELSE Head(files) \o concat(Tail(files))

fillna_text(v, d) == IF isna(v) THEN d ELSE v
fillna(v, d) == IF isnan(v) THEN d ELSE v

\* lines 75-98: drop the rows without a name (the index labels are kept),
\* fill the missing cells, build combined_features
clean_products(df) ==
    LET kept == SelectSeq(df.rows, LAMBDA r : ~isna(r.product_name))
        filled(r) ==
            [r EXCEPT
               !.brand_name = fillna_text(r.brand_name, <<"U","n","k","n","o","w","n"," ","B","r","a","n","d">>),
               !.primary_category = fillna_text(r.primary_category, <<"S","k","i","n","c","a","r","e">>),
               !.secondary_category = fillna_text(r.secondary_category, <<>>),
               !.ingredients = fillna_text(r.ingredients, <<>>),
               !.rating = fillna(r.rating, 0),
               !.reviews = fillna(r.reviews, 0),
               !.price_usd = fillna(r.price_usd, 0)]
        featured(r) ==
            [r EXCEPT !.combined_features =
                clean_text(r.product_name) \o <<" ">> \o
                clean_text(r.brand_name) \o <<" ">> \o
                clean_text(r.primary_category) \o <<" ">> \o
                clean_text(r.secondary_category) \o <<" ">> \o
                clean_text(r.ingredients)]
    IN  [columns |-> df.columns \cup {"combined_features"},
         rows |-> [i \in 1..Len(kept) |-> featured(filled(kept[i]))]]

\* mean of the non-missing values, NaN when there is none
mean(values) ==
    LET present == SelectSeq(values, LAMBDA v : ~isnan(v))
    IN  IF present = <<>> THEN NaN ELSE SumSeq(present) \div Len(present)

\* reviews_df.groupby('product_id').agg(...): the reviews of one product
group(reviews, id) == SelectSeq(reviews, LAMBDA r : r.product_id = id)

\* the listed rating and review count kept wherever the listing has them
merge_review_stats_listed_first(df, reviews) ==
    LET merged(r, i) ==
            [r EXCEPT !.idx = i - 1,
                      !.final_rating = r.rating,
                      !.final_review_count = r.reviews]
    IN  [columns |-> df.columns \cup {"final_rating", "final_review_count"},
         rows |-> [i \in 1..Len(df.rows) |-> merged(df.rows[i], i)]]

\* lines 102-116: left merge of the review aggregates (the merge renumbers
\* the index 0..n-1), final_rating and final_review_count with their fallback
merge_review_stats(df, reviews) ==
    LET merged(r, i) ==
            LET g == group(reviews, r.product_id)
                ratings == [k \in 1..Len(g) |-> g[k].rating]
                avg == IF g = <<>> THEN NaN ELSE mean(ratings)
                cnt == IF g = <<>> THEN NaN
                       ELSE Len(SelectSeq(ratings, LAMBDA v : ~isnan(v)))
            IN  [r EXCEPT !.idx = i - 1,
                          !.final_rating = fillna(avg, r.rating),
                          !.final_review_count = fillna(cnt, r.reviews)]
    IN  [columns |-> df.columns \cup {"final_rating", "final_review_count"},
         rows |-> [i \in 1..Len(df.rows) |-> merged(df.rows[i], i)]]

\* TextBlob(str(text)).sentiment.polarity in 1/100, for the review texts
\* of the data
polarity(text) ==
    IF text = <<"g","o","o","d">> THEN 70
    ELSE IF text = <<"b","a","d">> THEN -70
    ELSE IF text = <<"p","e","r","f","e","c","t">> THEN 100
    ELSE IF text = <<"t","e","r","r","i","b","l","e">> THEN -100
    ELSE 0

\* get_sentiment: 0 for a missing or empty text
get_sentiment(text) ==
    IF isna(text) \/ text = <<>> THEN 0 ELSE polarity(text)

\* lines 132-153: mean sentiment per product over the sampled reviews (all
\* of them when there are at most 10000), left merge, 0 when there is none
merge_sentiment(df, reviews) ==
    LET merged(r, i) ==
            LET g == group(reviews, r.product_id)
                s == IF g = <<>> THEN NaN
                     ELSE mean([k \in 1..Len(g) |-> get_sentiment(g[k].review_text)])
            IN  [r EXCEPT !.idx = i - 1, !.avg_sentiment = fillna(s, 0)]
    IN  [columns |-> df.columns \cup {"avg_sentiment"},
         rows |-> [i \in 1..Len(df.rows) |-> merged(df.rows[i], i)]]

\* ------------------------------------------------------------- globals
\* None and a value that is not None
None == <<>>
Some(v) == <<v>>
Get(o) == o[1]

VARIABLES
    disk,                     \* the data directory, by name
    entry,                    \* "main": python api.py; "import": the module imported
    pc,                       \* position of load_and_preprocess_data / __main__
    products_df,
    reviews_df,
    tfidf_vectorizer,
    product_features_matrix,
    response                  \* what the last call returned, until the caller takes it

vars == <<disk, entry, pc, products_df, reviews_df, tfidf_vectorizer,
          product_features_matrix, response>>

globals == <<products_df, reviews_df, tfidf_vectorizer, product_features_matrix>>

NoResponse ==
    [op |-> "none", request |-> <<>>, core |-> "none", status |-> 0,
     body |-> <<>>, filtered |-> <<>>, calls |-> <<>>]

\* lines 19-23
Init ==
    /\ disk \in Disks
    /\ entry \in {"main", "import"}
    /\ pc = "idle"
    /\ products_df = None
    /\ reviews_df = None
    /\ tfidf_vectorizer = None
    /\ product_features_matrix = None
    /\ response = NoResponse

\* ------------------------------------------- load_and_preprocess_data
\* lines 49-54
LoadProducts ==
    /\ pc = "idle"
    /\ response = NoResponse
    /\ IF ~Files(disk).product_info_exists
       THEN /\ pc' = "returned_false"
            /\ UNCHANGED products_df
       ELSE /\ products_df' = Some(read_products(Files(disk).product_info))
            /\ pc' = "products_loaded"
    /\ UNCHANGED <<disk, entry, reviews_df, tfidf_vectorizer,
                   product_features_matrix, response>>

\* lines 57-72
LoadReviews ==
    /\ pc = "products_loaded"
    /\ IF Files(disk).review_files = <<>>
       THEN /\ pc' = "returned_false"
            /\ UNCHANGED reviews_df
       ELSE /\ reviews_df' = Some(concat(Files(disk).review_files))
            /\ pc' = "reviews_loaded"
    /\ UNCHANGED <<disk, entry, products_df, tfidf_vectorizer,
                   product_features_matrix, response>>

\* lines 75-98
CleanProducts ==
    /\ pc = "reviews_loaded"
    /\ products_df' = Some(clean_products(Get(products_df)))
    /\ pc' = "cleaned"
    /\ UNCHANGED <<disk, entry, reviews_df, tfidf_vectorizer,
                   product_features_matrix, response>>

\* lines 102-116
MergeReviewStats ==
    /\ pc = "cleaned"
    /\ products_df' = Some(merge_review_stats(Get(products_df), Get(reviews_df)))
    /\ pc' = "merged"
    /\ UNCHANGED <<disk, entry, reviews_df, tfidf_vectorizer,
                   product_features_matrix, response>>

Corpus(df) == [i \in 1..Len(df.rows) |-> df.rows[i].combined_features]

\* lines 120-128: the vectorizer is assigned before the fit; a fit that
\* raises is caught at line 160 and the load returns False
BuildIndex ==
    /\ pc = "merged"
    /\ IF FitRaises(Corpus(Get(products_df)))
       THEN /\ tfidf_vectorizer' = Some(UnfittedVectorizer)
            /\ UNCHANGED product_features_matrix
            /\ pc' = "returned_false"
       ELSE LET fit == fit_transform(Corpus(Get(products_df)))
            IN  /\ tfidf_vectorizer' = Some(fit.vectorizer)
                /\ product_features_matrix' = Some(fit.matrix)
                /\ pc' = "indexed"
    /\ UNCHANGED <<disk, entry, products_df, reviews_df, response>>

\* lines 132-158
MergeSentiment ==
    /\ pc = "indexed"
    /\ products_df' = Some(merge_sentiment(Get(products_df), Get(reviews_df)))
    /\ pc' = "returned_true"
    /\ UNCHANGED <<disk, entry, reviews_df, tfidf_vectorizer,
                   product_features_matrix, response>>

\* lines 445-450: app.run once the load returned True
AppRun ==
    /\ entry = "main"
    /\ pc = "returned_true"
    /\ pc' = "serving"
    /\ UNCHANGED <<disk, entry, products_df, reviews_df, tfidf_vectorizer,
                   product_features_matrix, response>>

\* the server answers from the start, while the load is still running
Callable_while_loading == response = NoResponse

\* A function of the module can be called when the load is not running:
\* under __main__ once the server runs, after an import at any time.
Callable ==
    /\ response = NoResponse
    /\ \/ entry = "main" /\ pc = "serving"
       \/ entry = "import" /\ pc \in {"idle", "returned_false", "returned_true"}

\* ----------------------------------------- get_product_recommendations
Min(a, b) == IF a <= b THEN a ELSE b
Max(a, b) == IF a >= b THEN a ELSE b

\* re.search(pat, s) for patterns of literal characters and '.', which
\* matches any character
re_match_at(pat, s, i) ==
    /\ i + Len(pat) - 1 <= Len(s)
    /\ \A k \in 1..Len(pat) : pat[k] = "." \/ pat[k] = s[i + k - 1]

re_search(pat, s) == \E i \in 1..(Len(s) + 1) : re_match_at(pat, s, i)

\* Series.str.contains(pat, na=False): regex=True is the default, a
\* missing cell does not match
str_contains(s, pat) == ~isna(s) /\ re_search(pat, s)

\* lines 179-182: NaN compares False
price_mask(r, price_range) ==
    /\ ~isnan(r.price_usd)
    /\ r.price_usd >= price_range[1]
    /\ r.price_usd <= price_range[2]

\* lines 185-187
brand_mask(r, brand_filter) ==
    str_contains(IF isna(r.brand_name) THEN NaNText ELSE lower(r.brand_name),
                 lower(brand_filter))

\* line 184
BrandFilterOn(brand_filter) ==
    brand_filter # <<>> /\ lower(brand_filter) # <<"a","l","l">>

\* the brand filter selects from the whole catalog, not from what the
\* price filter left
apply_filters_brand_from_catalog(rows, price_range, brand_filter) ==
    IF BrandFilterOn(brand_filter)
    THEN SelectSeq(rows, LAMBDA r : brand_mask(r, brand_filter))
    ELSE IF price_range # <<>>
    THEN SelectSeq(rows, LAMBDA r : price_mask(r, price_range))
    ELSE rows

\* lines 174-187 for a price range that unpacks: each filter selects from
\* what the one before left
apply_filters(rows, price_range, brand_filter) ==
    LET by_price == IF price_range # <<>>
                    THEN SelectSeq(rows, LAMBDA r : price_mask(r, price_range))
                    ELSE rows
    IN  IF BrandFilterOn(brand_filter)
        THEN SelectSeq(by_price, LAMBDA r : brand_mask(r, brand_filter))
        ELSE by_price

\* lines 193-195
enhanced_query(query, skin_concerns) ==
    IF skin_concerns # <<>>
    THEN clean_text(query) \o <<" ">> \o
         join(<<" ">>, [i \in 1..Len(skin_concerns) |-> clean_text(skin_concerns[i])])
    ELSE clean_text(query)

\* a candidate of similarity 0 kept
is_match_nonnegative(similarity) == similarity >= 0

\* line 210
is_match(similarity) == similarity > 0

\* a bonus that shrinks as the rating grows
rating_bonus_inverted(final_rating) == (50 - final_rating) * 40

\* line 215, in 1/10000: (final_rating / 5.0) * 0.2
rating_bonus(final_rating) == final_rating * 40

\* line 216, in 1/10000: min(log1p(count) / 10, 0.1)
review_bonus(final_review_count) ==
    Min(ln_milli(final_review_count + 1), 1000)

\* line 217, in 1/10000: max(avg_sentiment, 0) * 0.1
sentiment_bonus(avg_sentiment) == Max(avg_sentiment, 0) * 10

\* lines 214-219
composite_score(similarity, product) ==
    similarity + rating_bonus(product.final_rating)
               + review_bonus(product.final_review_count)
               + sentiment_bonus(product.avg_sentiment)

\* lines 221-235, without the display texts; price_usd is None (NaN here)
\* when it is not positive
result_record(similarity, product) ==
    [product_id |-> product.product_id,
     price_usd |-> IF product.price_usd > 0 THEN product.price_usd ELSE NaN,
     rating |-> product.final_rating,
     review_count |-> product.final_review_count,
     similarity_score |-> similarity,
     composite_score |-> composite_score(similarity, product),
     sentiment_score |-> product.avg_sentiment]

RECURSIVE insert_desc(_, _)
\* x goes after every element whose key is at least its own
insert_desc(s, x) ==
    IF s = <<>> THEN <<x>>
    ELSE IF Head(s).composite_score >= x.composite_score
         THEN <<Head(s)>> \o insert_desc(Tail(s), x)
         ELSE <<x>> \o s

RECURSIVE sort_acc(_, _)
sort_acc(rest, acc) ==
    IF rest = <<>> THEN acc ELSE sort_acc(Tail(rest), insert_desc(acc, Head(rest)))

RECURSIVE reverse(_)
reverse(s) == IF s = <<>> THEN <<>> ELSE reverse(Tail(s)) \o <<Head(s)>>

\* an ascending stable sort whose output is reversed: ties come out in
\* reverse catalog order
sort_results_reversed(results) ==
    LET neg == [i \in 1..Len(results) |->
                  [results[i] EXCEPT !.composite_score = 0 - @]]
        asc == sort_acc(neg, <<>>)
    IN  reverse([i \in 1..Len(asc) |-> [asc[i] EXCEPT !.composite_score = 0 - @]])

\* the sort without reverse=True: the lowest composite score first
sort_results_ascending(results) == reverse(sort_acc(results, <<>>))

\* line 238: list.sort(key=composite_score, reverse=True) is stable, equal
\* keys keep their order
sort_results(results) == sort_acc(results, <<>>)

\* line 240: results[:top_n]; a negative top_n counts from the end
truncate(results, top_n) ==
    IF top_n >= 0
    THEN SubSeq(results, 1, Min(top_n, Len(results)))
    ELSE SubSeq(results, 1, Max(Len(results) + top_n, 0))

Returned(value, filtered, calls) ==
    [outcome |-> "returned", value |-> value, filtered |-> filtered, calls |-> calls]
Raised(error, filtered, calls) ==
    [outcome |-> "raised", value |-> error, filtered |-> filtered, calls |-> calls]

ProductIds(rows) == [i \in 1..Len(rows) |-> rows[i].product_id]

\* the filtered frame assigned to the global instead of a local
products_filtered_in_place(df, filtered) ==
    IF df = None THEN df ELSE Some([Get(df) EXCEPT !.rows = filtered])

\* lines 174-187: filtering works on a copy and on new frames, the global
\* products_df keeps its value
products_after_search(df, filtered) == df

\* the index used before the filtered frame is looked at
index_calls_always(filtered) == <<"transform", "cosine_similarity">>

\* lines 189-190 and 198-205: what of the index a request with this
\* filtered frame uses
index_calls(filtered) ==
    IF Len(filtered) = 0 THEN <<>> ELSE <<"transform", "cosine_similarity">>

\* the matrix row taken at the position in the filtered frame instead of at
\* the row's index label
rank_compacted(query_vector, matrix, filtered, top_n) ==
    LET sims == [i \in 1..Len(filtered) |->
                   cosine_similarity(query_vector, matrix[i])]
        hits == SelectSeq([i \in 1..Len(filtered) |-> i], LAMBDA i : is_match(sims[i]))
        results == [k \in 1..Len(hits) |->
                      result_record(sims[hits[k]], filtered[hits[k]])]
    IN  truncate(sort_results(results), top_n)

\* lines 207-240, once the query vector and the rows are at hand
rank(query_vector, matrix, filtered, top_n) ==
    LET sims == [i \in 1..Len(filtered) |->
                   cosine_similarity(query_vector, matrix[filtered[i].idx + 1])]
        hits == SelectSeq([i \in 1..Len(filtered) |-> i], LAMBDA i : is_match(sims[i]))
        results == [k \in 1..Len(hits) |->
                      result_record(sims[hits[k]], filtered[hits[k]])]
    IN  truncate(sort_results(results), top_n)

\* lines 166-240. The value is the returned list, or the exception raised;
\* filtered is the frame handed to the scoring, calls the uses of the index.
get_product_recommendations(query, skin_concerns, price_range, brand_filter, top_n) ==
    IF products_df = None THEN Returned(<<>>, <<>>, <<>>)
    ELSE IF price_range # <<>> /\ Len(price_range) # 2
    THEN Raised("ValueError", <<>>, <<>>)
    ELSE
      LET df == Get(products_df)
          filtered == apply_filters(df.rows, price_range, brand_filter)
          calls == index_calls(filtered)
      IN  IF calls = <<>> THEN Returned(<<>>, filtered, calls)
          ELSE IF tfidf_vectorizer = None
          THEN Raised("AttributeError", filtered, <<"transform">>)
          ELSE IF ~Get(tfidf_vectorizer).fitted
          THEN Raised("NotFittedError", filtered, <<"transform">>)
          ELSE IF product_features_matrix = None
          THEN Raised("TypeError", filtered, <<"transform">>)
          ELSE IF \E i \in 1..Len(filtered) :
                     filtered[i].idx + 1 > Len(Get(product_features_matrix))
          THEN Raised("IndexError", filtered, <<"transform">>)
          ELSE
            LET qv == transform(Get(tfidf_vectorizer),
                                enhanced_query(query, skin_concerns))
                matrix == Get(product_features_matrix)
            IN  IF /\ ~({"final_rating", "final_review_count", "avg_sentiment"}
                          \subseteq df.columns)
                   /\ \E i \in 1..Len(filtered) :
                         is_match(cosine_similarity(qv, matrix[filtered[i].idx + 1]))
                THEN Raised("KeyError", filtered, calls)
                ELSE Returned(rank(qv, matrix, filtered, top_n), filtered, calls)

\* ------------------------------------------------------------ requests
Request(query, skin_concerns, price_range, brand_filter, top_n) ==
    [query |-> query, skin_concerns |-> skin_concerns,
     price_range |-> price_range, brand |-> brand_filter, limit |-> top_n]

\* lines 280-314: an empty query is a 400, an exception of the core a 500
search_products(req) ==
    IF req.query = <<>>
    THEN [op |-> "search", request |-> req, core |-> "not_called",
          status |-> 400, body |-> <<>>, filtered |-> <<>>, calls |-> <<>>]
    ELSE LET r == get_product_recommendations(req.query, req.skin_concerns,
                      req.price_range, req.brand, req.limit)
         IN  [op |-> "search", request |-> req, core |-> r.outcome,
              status |-> IF r.outcome = "raised" THEN 500 ELSE 200,
              body |-> IF r.outcome = "raised" THEN <<>> ELSE r.value,
              filtered |-> ProductIds(r.filtered), calls |-> r.calls]

\* DataFrame.head(n): a negative n leaves out the last -n rows
head(rows, n) ==
    IF n >= 0 THEN SubSeq(rows, 1, Min(n, Len(rows)))
    ELSE SubSeq(rows, 1, Max(Len(rows) + n, 0))

\* lines 242-263
get_product_reviews(product_id, limit) ==
    IF reviews_df = None THEN <<>>
    ELSE LET rows == head(group(Get(reviews_df), product_id), limit)
         IN  [i \in 1..Len(rows) |->
                [rating |-> rows[i].rating, review_text |-> rows[i].review_text]]

Reply(op, req, status, body) ==
    [op |-> op, request |-> req, core |-> "none", status |-> status,
     body |-> body, filtered |-> <<>>, calls |-> <<>>]

DataNotLoaded == [error |-> "Data not loaded"]

\* lines 316-330
get_reviews_endpoint(product_id, limit) ==
    Reply("reviews", <<product_id, limit>>, 200,
          [product_id |-> product_id,
           total_reviews |-> Len(get_product_reviews(product_id, limit)),
           reviews |-> get_product_reviews(product_id, limit)])

\* a text column of the frame
Column(rows, name) ==
    [i \in 1..Len(rows) |->
        IF name = "brand_name" THEN rows[i].brand_name
        ELSE IF name = "primary_category" THEN rows[i].primary_category
        ELSE rows[i].secondary_category]

\* Series.dropna().unique() as a set
unique(values) ==
    { values[i] : i \in { k \in 1..Len(values) : ~isna(values[k]) } }

\* an empty answer in place of the error
get_categories_empty(df) ==
    IF df = None
    THEN Reply("categories", <<>>, 200,
               [primary_categories |-> {}, secondary_categories |-> {}])
    ELSE Reply("categories", <<>>, 200,
           [primary_categories |->
                unique(Column(Get(df).rows, "primary_category")),
            secondary_categories |->
                unique(Column(Get(df).rows, "secondary_category")) \ {<<>>}])

\* lines 332-348
get_categories(df) ==
    IF df = None THEN Reply("categories", <<>>, 500, DataNotLoaded)
    ELSE Reply("categories", <<>>, 200,
           [primary_categories |->
                unique(Column(Get(df).rows, "primary_category")),
            secondary_categories |->
                unique(Column(Get(df).rows, "secondary_category")) \ {<<>>}])

\* value_counts(): the number of rows per value
value_counts(values) ==
    [v \in unique(values) |->
        Cardinality({ k \in 1..Len(values) : values[k] = v })]

\* lines 350-366; the catalogs here have fewer than 20 brands
get_brands(df) ==
    IF df = None THEN Reply("brands", <<>>, 500, DataNotLoaded)
    ELSE Reply("brands", <<>>, 200,
           [all_brands |-> unique(Column(Get(df).rows, "brand_name")),
            top_brands |-> value_counts(Column(Get(df).rows, "brand_name"))])

RECURSIVE MaxSeq(_)
\* Series.max(): NaN for an empty or all-missing column
MaxSeq(s) ==
    IF s = <<>> THEN NaN
    ELSE LET rest == MaxSeq(Tail(s))
         IN  IF isnan(Head(s)) THEN rest
             ELSE IF isnan(rest) THEN Head(s)
             ELSE Max(Head(s), rest)

\* lines 368-400; a missing final_rating column is a KeyError, answered 500
get_stats(df, reviews) ==
    IF df = None \/ reviews = None THEN Reply("stats", <<>>, 500, DataNotLoaded)
    ELSE IF "final_rating" \notin Get(df).columns
    THEN Reply("stats", <<>>, 500, [error |-> "KeyError"])
    ELSE LET rows == Get(df).rows
         IN  Reply("stats", <<>>, 200,
               [total_products |-> Len(rows),
                total_reviews |-> Len(Get(reviews)),
                total_brands |-> Cardinality(unique(Column(rows, "brand_name"))),
                total_categories |->
                    Cardinality(unique(Column(rows, "primary_category"))),
                average_rating |-> mean([i \in 1..Len(rows) |-> rows[i].final_rating]),
                max_price |-> MaxSeq([i \in 1..Len(rows) |-> rows[i].price_usd])])

\* lines 415-419, in 1/10000
trending_score(r) ==
    r.final_rating * 400 + 4 * ln_milli(r.final_review_count + 1)
        + 50 * (r.avg_sentiment + 100)

RECURSIVE insert_trending(_, _)
insert_trending(s, x) ==
    IF s = <<>> THEN <<x>>
    ELSE IF Head(s).trending_score >= x.trending_score
         THEN <<Head(s)>> \o insert_trending(Tail(s), x)
         ELSE <<x>> \o s

RECURSIVE nlargest_acc(_, _)
nlargest_acc(rest, acc) ==
    IF rest = <<>> THEN acc
    ELSE nlargest_acc(Tail(rest), insert_trending(acc, Head(rest)))

\* the first n rows as they come, not the n largest
nlargest_head(n, rows) == SubSeq(rows, 1, Min(n, Len(rows)))

\* DataFrame.nlargest(n, 'trending_score'): descending, equal scores in
\* their original order (keep='first')
nlargest(n, rows) == SubSeq(nlargest_acc(rows, <<>>), 1, Min(n, Len(rows)))

\* lines 402-430; a missing column is a KeyError, answered 500
get_trending(df) ==
    IF df = None THEN Reply("trending", <<>>, 500, DataNotLoaded)
    ELSE IF ~({"final_rating", "final_review_count", "avg_sentiment"}
                \subseteq Get(df).columns)
    THEN Reply("trending", <<>>, 500, [error |-> "KeyError"])
    ELSE LET eligible == SelectSeq(Get(df).rows, LAMBDA r :
                            /\ r.final_rating >= TrendingMinRating
                            /\ r.final_review_count >= TrendingMinReviews)
             scored == [i \in 1..Len(eligible) |->
                          [product_id |-> eligible[i].product_id,
                           product_name |-> eligible[i].product_name,
                           brand_name |-> eligible[i].brand_name,
                           final_rating |-> eligible[i].final_rating,
                           final_review_count |-> eligible[i].final_review_count,
                           price_usd |-> eligible[i].price_usd,
                           trending_score |-> trending_score(eligible[i])]]
         IN  Reply("trending", <<>>, 200,
                   [trending_products |-> nlargest(TrendingLimit, scored)])

\* ------------------------------------------------------------- inputs
Queries ==
    { <<>>, <<"h","y","d","r","a","t","i","n","g">>, <<"S","e","r","u","m","!">>, <<"g","e","l">> }

SkinConcerns == { <<>>, << <<"S","e","r","u","m">> >> }

\* absent, well-formed, reversed, and with one bound only
PriceRanges ==
    { <<>>, <<0, 20>>, <<20, 50>>, <<1000, 2000>>, <<50, 20>>, <<20>> }

BrandFilters ==
    { <<>>, <<"a","l","l">>, <<"A","L","L">>, <<"A","v","a">>, <<"b","o">>, <<".">> }

TopNs == ((0 - MaxNegTopN)..MaxTopN) \cup {DefaultTopN}

ReviewProductIds == {"P2", "P3", "PX"}
ReviewLimits == {1, DefaultReviewLimit}

\* ------------------------------------------------------------ actions
Serve(reply) ==
    /\ Callable
    /\ response' = reply
    /\ UNCHANGED <<disk, entry, pc, products_df, reviews_df, tfidf_vectorizer,
                   product_features_matrix>>

\* POST /api/search
SearchProducts ==
    /\ Callable
    /\ \E q \in Queries, c \in SkinConcerns, pr \in PriceRanges,
          b \in BrandFilters, n \in TopNs :
           LET req == Request(q, c, pr, b, n)
           IN  /\ response' = search_products(req)
               /\ products_df' = products_after_search(products_df,
                      IF products_df = None \/ (pr # <<>> /\ Len(pr) # 2) THEN <<>>
                      ELSE apply_filters(Get(products_df).rows, pr, b))
               /\ UNCHANGED <<disk, entry, pc, reviews_df, tfidf_vectorizer,
                              product_features_matrix>>

\* GET /api/product/<id>/reviews
GetReviews ==
    \E id \in ReviewProductIds, limit \in ReviewLimits :
        Serve(get_reviews_endpoint(id, limit))

\* GET /api/categories
GetCategories == Serve(get_categories(products_df))

\* GET /api/brands
GetBrands == Serve(get_brands(products_df))

\* GET /api/stats
GetStats == Serve(get_stats(products_df, reviews_df))

\* GET /api/trending
GetTrending == Serve(get_trending(products_df))

\* the caller takes the response
Deliver ==
    /\ response # NoResponse
    /\ response' = NoResponse
    /\ UNCHANGED <<disk, entry, pc, products_df, reviews_df, tfidf_vectorizer,
                   product_features_matrix>>

Next ==
    \/ LoadProducts
    \/ LoadReviews
    \/ CleanProducts
    \/ MergeReviewStats
    \/ BuildIndex
    \/ MergeSentiment
    \/ AppRun
    \/ SearchProducts
    \/ GetReviews
    \/ GetCategories
    \/ GetBrands
    \/ GetStats
    \/ GetTrending
    \/ Deliver

Spec == Init /\ [][Next]_vars

\* further data directories: the catalog of three products, the catalog that
\* overfills the trending list, the reviews with empty rating cells
ScenarioDisks == {"scenario", "many", "unrated"}

\* the process started in one of them
ScenarioInit ==
    /\ disk \in ScenarioDisks
    /\ entry \in {"main", "import"}
    /\ pc = "idle"
    /\ products_df = None
    /\ reviews_df = None
    /\ tfidf_vectorizer = None
    /\ product_features_matrix = None
    /\ response = NoResponse

ScenarioSpec == ScenarioInit /\ [][Next]_vars

\* ------------------------------------------------------------- claims
Built == pc \in {"returned_true", "serving"}

\* a search request that reached get_product_recommendations
SearchCalled == response.op = "search" /\ response.core # "not_called"

SearchReturned == response.op = "search" /\ response.core = "returned"

IdSet(records) == { records[i].product_id : i \in 1..Len(records) }

SeqSet(s) == { s[i] : i \in 1..Len(s) }

CatalogPos(id) ==
    CHOOSE k \in 1..Len(Get(products_df).rows) :
        Get(products_df).rows[k].product_id = id

\* C1: search called while the catalog or the index is not completely built
\* returns the empty list and does not raise.
C1_EmptyWhenNotBuilt ==
    (SearchCalled /\ ~Built) =>
        (response.core = "returned" /\ response.body = <<>>)

C3_AtMostTopN ==
    SearchReturned => Len(response.body) <= Max(response.request.limit, 0)

\* the ids a search with these arguments returns; nothing when it raises
ReturnedIds(req) ==
    LET r == get_product_recommendations(req.query, req.skin_concerns,
                 req.price_range, req.brand, req.limit)
    IN  IF r.outcome = "returned" THEN IdSet(r.value) ELSE {}

BothFilters ==
    /\ SearchReturned
    /\ response.request.price_range # <<>>
    /\ BrandFilterOn(response.request.brand)

SubsetOfEitherAlone ==
    /\ IdSet(response.body) \subseteq
          ReturnedIds([response.request EXCEPT !.brand = <<>>])
    /\ IdSet(response.body) \subseteq
          ReturnedIds([response.request EXCEPT !.price_range = <<>>])

\* C4, as claimed: with the same query, concerns and limit, what search
\* returns with a price range and a brand filter is a subset of what it
\* returns with either filter alone.
C4_SubsetAnyLimit == BothFilters => SubsetOfEitherAlone

\* C4, amended: the same, provided the limit is at least the number of
\* products in the catalog, so that no result list is cut.
C4_SubsetWhenNotCut ==
    (/\ BothFilters
     /\ products_df # None
     /\ response.request.limit >= Len(Get(products_df).rows))
        => SubsetOfEitherAlone

C4_Witness ==
    /\ BothFilters
    /\ Built
    /\ response.request.limit >= Len(Get(products_df).rows)
    /\ response.body # <<>>
    /\ ReturnedIds([response.request EXCEPT !.brand = <<>>])
          # IdSet(response.body)

\* C5: the returned list is in non-increasing order of composite_score, and
\* records with equal composite_score are in catalog order.
C5_SortedStable ==
    SearchReturned =>
        \A i, j \in 1..Len(response.body) :
            i < j =>
               /\ response.body[i].composite_score >= response.body[j].composite_score
               /\ response.body[i].composite_score = response.body[j].composite_score
                    => CatalogPos(response.body[i].product_id)
                         < CatalogPos(response.body[j].product_id)

C5_Witness ==
    /\ SearchReturned
    /\ Len(response.body) = 3
    /\ response.body[2].composite_score = response.body[3].composite_score
    /\ response.body[1].composite_score > response.body[2].composite_score
    /\ CatalogPos(response.body[1].product_id)
          > CatalogPos(response.body[2].product_id)

\* the similarity of the augmented query and the product's own matrix row
BaseSimilarity(req, id) ==
    cosine_similarity(
        transform(Get(tfidf_vectorizer), enhanced_query(req.query, req.skin_concerns)),
        Get(product_features_matrix)[CatalogPos(id)])

\* C6: every returned record has a strictly positive base similarity.
C6_PositiveSimilarity ==
    SearchReturned =>
        \A i \in 1..Len(response.body) :
            /\ response.body[i].similarity_score > 0
            /\ BaseSimilarity(response.request, response.body[i].product_id) > 0

\* a candidate of similarity 0 is left out although the list has room
C6_Witness ==
    /\ SearchReturned
    /\ response.body # <<>>
    /\ Len(response.body) < response.request.limit
    /\ \E id \in SeqSet(response.filtered) :
          /\ id \notin IdSet(response.body)
          /\ BaseSimilarity(response.request, id) = 0

\* s contains sub as a literal substring
Contains(s, sub) ==
    \E i \in 1..(Len(s) + 1) :
        /\ i + Len(sub) - 1 <= Len(s)
        /\ \A k \in 1..Len(sub) : s[i + k - 1] = sub[k]

\* the catalog rows that satisfy every supplied predicate, brands matched
\* as literal substrings
LiteralFilter(rows, price_range, brand_filter) ==
    SelectSeq(rows, LAMBDA r :
        /\ price_range # <<>> =>
              /\ ~isnan(r.price_usd)
              /\ price_range[1] <= r.price_usd
              /\ r.price_usd <= price_range[2]
        /\ (brand_filter # <<>> /\ lower(brand_filter) # <<"a","l","l">>) =>
              /\ ~isna(r.brand_name)
              /\ Contains(lower(r.brand_name), lower(brand_filter)))

WellFormed(price_range) == Len(price_range) \in {0, 2}

\* C7: the candidates handed to scoring are exactly the catalog products, in
\* catalog order, that satisfy every supplied predicate, the brand filter
\* being a literal substring test.
C7_LiteralFilter ==
    (/\ SearchCalled
     /\ Built
     /\ WellFormed(response.request.price_range))
        => response.filtered =
              ProductIds(LiteralFilter(Get(products_df).rows,
                                       response.request.price_range,
                                       response.request.brand))

Malformed(price_range) ==
    \/ Len(price_range) = 1
    \/ Len(price_range) = 2 /\ price_range[1] > price_range[2]

\* C8: on a built index, a malformed price range is answered as a rejected
\* request, distinct from a successful empty result.
C8_MalformedRejected ==
    (SearchCalled /\ Built /\ Malformed(response.request.price_range))
        => response.status # 200

\* C9: when the filters leave no candidate, search returns the empty list
\* and the request makes no use of the vectorizer or the feature matrix.
C9_EmptyShortCircuit ==
    (/\ SearchCalled
     /\ products_df # None
     /\ WellFormed(response.request.price_range)
     /\ apply_filters(Get(products_df).rows, response.request.price_range,
                      response.request.brand) = <<>>)
        => /\ response.core = "returned"
           /\ response.body = <<>>
           /\ response.calls = <<>>

C9_Witness ==
    /\ SearchCalled
    /\ Built
    /\ Get(products_df).rows # <<>>
    /\ response.request.price_range = <<1000, 2000>>
    /\ response.filtered = <<>>
    /\ response.calls = <<>>

\* C10: a request served on a built index leaves products_df, reviews_df,
\* tfidf_vectorizer and product_features_matrix as the build left them.
C10_RequestsKeepGlobals ==
    [][(Built /\ response' # response) => UNCHANGED globals]_vars

\* a search whose filters kept part of the catalog has been served
C10_Witness ==
    /\ Built
    /\ SearchReturned
    /\ response.filtered # <<>>
    /\ Len(response.filtered) < Len(Get(products_df).rows)
    /\ response.body # <<>>

\* what load_and_preprocess_data publishes when it returns True (lines
\* 53-158 in sequence)
BuildOf(name) ==
    LET reviews == concat(Files(name).review_files)
        merged == merge_review_stats(
                      clean_products(read_products(Files(name).product_info)),
                      reviews)
        fit == fit_transform(Corpus(merged))
    IN  [products_df |-> merge_sentiment(merged, reviews),
         tfidf_vectorizer |-> fit.vectorizer,
         product_features_matrix |-> fit.matrix]

\* lines 174-240 on what the load published: the list the first search
\* after the build returns for a request
FirstAnswer(req) ==
    LET built == BuildOf(disk)
        filtered == apply_filters(built.products_df.rows, req.price_range,
                                  req.brand)
    IN  IF filtered = <<>> THEN <<>>
        ELSE rank(transform(built.tfidf_vectorizer,
                            enhanced_query(req.query, req.skin_concerns)),
                  built.product_features_matrix, filtered, req.limit)

\* C11: on a built index, whatever requests were served before it, a search
\* returns the ordered list of records that the same arguments get from the
\* first search after the build; so two calls with the same arguments return
\* the same list.
C11_SameArgumentsSameList ==
    (Built /\ SearchReturned) => response.body = FirstAnswer(response.request)

\* a search with filters has been answered with several records in order
C11_Witness ==
    /\ Built
    /\ SearchReturned
    /\ response.request.price_range # <<>>
    /\ Len(response.body) >= 2

\* everything a request reads is in place
Published ==
    /\ products_df # None
    /\ reviews_df # None
    /\ {"final_rating", "final_review_count", "avg_sentiment"}
          \subseteq Get(products_df).columns
    /\ tfidf_vectorizer # None
    /\ Get(tfidf_vectorizer).fitted
    /\ product_features_matrix # None
    /\ Len(Get(product_features_matrix)) = Len(Get(products_df).rows)

\* C12: started as a program (python api.py), the process serves requests
\* only once load_and_preprocess_data has returned True, so every request
\* is answered on a complete build; and once the load has returned False
\* no request is served.
C12_ServeOnlyAfterBuild ==
    /\ [](entry = "main" =>
            /\ (pc = "serving" \/ response # NoResponse)
                  => (pc = "serving" /\ Published)
            /\ pc = "returned_false" => response = NoResponse)
    /\ [][(entry = "main" /\ pc = "returned_false")
            => (pc' = "returned_false" /\ response' = NoResponse)]_vars

\* the started server has answered a search with records
C12_Witness ==
    /\ entry = "main"
    /\ pc = "serving"
    /\ SearchReturned
    /\ response.body # <<>>

\* the plain search of the scenario: query "hydrating", limit 2, no filter
ScenarioSearch ==
    /\ disk = "scenario"
    /\ Built
    /\ SearchCalled
    /\ response.request =
          Request(<<"h","y","d","r","a","t","i","n","g">>, <<>>, <<>>, <<>>, 2)

\* C13: on the catalog of three products, search with query "hydrating" and
\* limit 2 returns Hydrating Serum and Hydrating Cream and no other record,
\* the higher composite score first, and not Mattifying Gel.
C13_ScenarioHydrating ==
    ScenarioSearch =>
        /\ response.core = "returned"
        /\ Len(response.body) = 2
        /\ response.body[1].product_id = "S1"
        /\ response.body[2].product_id = "S3"
        /\ response.body[1].composite_score >= response.body[2].composite_score
        /\ "S2" \notin IdSet(response.body)

\* the scenario's search answered on the catalog as the scenario gives it
C13_Witness ==
    /\ ScenarioSearch
    /\ response.status = 200
    /\ \E i \in 1..3 :
          LET r == Get(products_df).rows[i]
          IN  /\ r.product_id = "S3"
              /\ r.final_rating = 40
              /\ r.final_review_count = 500
              /\ r.avg_sentiment = 10
    /\ \E i \in 1..3 :
          LET r == Get(products_df).rows[i]
          IN  /\ r.product_id = "S1"
              /\ r.final_rating = 48
              /\ r.final_review_count = 120
              /\ r.avg_sentiment = 30
    /\ \E i \in 1..3 :
          LET r == Get(products_df).rows[i]
          IN  /\ r.product_id = "S2"
              /\ r.final_rating = 30
              /\ r.final_review_count = 10
              /\ r.avg_sentiment = -10

\* a trending request answered with a list
TrendingListed == response.op = "trending" /\ response.status = 200

Trending == response.body.trending_products

\* the catalog row of a product
CatalogRow(id) == Get(products_df).rows[CatalogPos(id)]

Eligible(r) == r.final_rating >= 40 /\ r.final_review_count >= 50

\* 0.4*final_rating + 0.4*ln(1+final_review_count)
\* + 0.2*(avg_sentiment+1)*2.5, in 1/10000
ClaimedTrendingScore(r) ==
    400 * r.final_rating + 4 * ln_milli(1 + r.final_review_count)
        + 50 * (r.avg_sentiment + 100)

\* C14: trending lists only products with final_rating >= 4.0 and
\* final_review_count >= 50, at most 20 of them, in non-increasing order of
\* the trending score with equal scores in catalog order, and no eligible
\* product it leaves out has a higher score than one it lists.
C14_TrendingTop20 ==
    TrendingListed =>
        /\ Len(Trending) <= 20
        /\ \A i \in 1..Len(Trending) :
              /\ Eligible(CatalogRow(Trending[i].product_id))
              /\ Trending[i].trending_score =
                    ClaimedTrendingScore(CatalogRow(Trending[i].product_id))
        /\ \A i, j \in 1..Len(Trending) :
              i < j =>
                 /\ Trending[i].trending_score >= Trending[j].trending_score
                 /\ Trending[i].trending_score = Trending[j].trending_score
                      => CatalogPos(Trending[i].product_id)
                           < CatalogPos(Trending[j].product_id)
        /\ \A k \in 1..Len(Get(products_df).rows) :
              LET r == Get(products_df).rows[k]
              IN  (Eligible(r) /\ r.product_id \notin IdSet(Trending))
                     => \A i \in 1..Len(Trending) :
                           ClaimedTrendingScore(r) <= Trending[i].trending_score

\* a full list: eligible products are left out, one of them with the score
\* of a listed one, and listed ones have equal scores
C14_Witness ==
    /\ TrendingListed
    /\ Len(Trending) = 20
    /\ \E i, j \in 1..Len(Trending) :
          i < j /\ Trending[i].trending_score = Trending[j].trending_score
    /\ \E k \in 1..Len(Get(products_df).rows) :
          LET r == Get(products_df).rows[k]
          IN  /\ Eligible(r)
              /\ r.product_id \notin IdSet(Trending)
              /\ ClaimedTrendingScore(r) = Trending[20].trending_score
    /\ \E k \in 1..Len(Get(products_df).rows) :
          ~Eligible(Get(products_df).rows[k])

\* ratings in tenths, 0.0 to 5.0
Ratings == 0..50

\* the composite score of a returned record had its product the rating r,
\* with the record's similarity, review count and sentiment
ScoreWithRating(record, r) ==
    composite_score(record.similarity_score,
                    [final_rating |-> r,
                     final_review_count |-> record.review_count,
                     avg_sentiment |-> record.sentiment_score])

\* C15: with base similarity, review count and sentiment held fixed, a
\* higher final_rating never gives a lower composite score: for every
\* returned record, every higher rating scores at least as much and every
\* lower rating at most as much.
C15_MonotoneInRating ==
    SearchReturned =>
        \A i \in 1..Len(response.body) :
            LET record == response.body[i]
            IN  /\ ScoreWithRating(record, record.rating) = record.composite_score
                /\ \A r \in Ratings :
                      /\ r > record.rating
                            => ScoreWithRating(record, r) >= record.composite_score
                      /\ r < record.rating
                            => ScoreWithRating(record, r) <= record.composite_score

\* a record whose rating has ratings below and above it
C15_Witness ==
    /\ SearchReturned
    /\ \E i \in 1..Len(response.body) :
          /\ response.body[i].rating > 0
          /\ response.body[i].rating < 50
          /\ response.body[i].review_count > 0

\* the vector of a product's own document under the fitted vectorizer
OwnVector(id) ==
    transform(Get(tfidf_vectorizer), CatalogRow(id).combined_features)

\* the vector of the request's query
QueryVector(req) ==
    transform(Get(tfidf_vectorizer), enhanced_query(req.query, req.skin_concerns))

\* C16: whatever the filters, the similarity_score of a returned record is
\* the similarity between the query and the product's own row of the
\* feature matrix, the row at the product's position in the built catalog.
C16_SimilarityOfOwnRow ==
    (Built /\ SearchReturned) =>
        \A i \in 1..Len(response.body) :
            LET id == response.body[i].product_id
            IN  /\ Get(product_features_matrix)[CatalogPos(id)] = OwnVector(id)
                /\ response.body[i].similarity_score =
                      cosine_similarity(QueryVector(response.request),
                                        OwnVector(id))

\* rows without a name were dropped in the build, and a returned product
\* stands in the filtered frame at another position than in the catalog
C16_Witness ==
    /\ Built
    /\ SearchReturned
    /\ Len(Files(disk).product_info) > Len(Get(products_df).rows)
    /\ \E i \in 1..Len(response.body), k \in 1..Len(response.filtered) :
          /\ response.filtered[k] = response.body[i].product_id
          /\ k # CatalogPos(response.body[i].product_id)

\* the reviews of a product in the review files, and their ratings
ReviewsOf(id) == group(concat(Files(disk).review_files), id)
RatingsOf(id) ==
    LET g == ReviewsOf(id) IN [k \in 1..Len(g) |-> g[k].rating]
RatedOf(id) == SelectSeq(RatingsOf(id), LAMBDA v : ~isnan(v))

\* the product's line of product_info.csv
Listing(id) ==
    LET rows == Files(disk).product_info
    IN  rows[CHOOSE k \in 1..Len(rows) : rows[k].product_id = id]

ListedOrZero(v) == IF isnan(v) THEN 0 ELSE v

NonNull(r) ==
    /\ ~isnan(r.final_rating)
    /\ ~isnan(r.final_review_count)
    /\ ~isnan(r.avg_sentiment)

\* C17, as claimed: after a successful build every product has non-null
\* final_rating, final_review_count and avg_sentiment; final_rating is the
\* mean rating of the product's review aggregate when it has one, else the
\* listed rating, else 0; final_review_count is the aggregate's rating
\* count, else the listed review count, else 0; avg_sentiment is 0 for a
\* product without reviews.
C17_FallbackPolicy ==
    Built =>
        \A i \in 1..Len(Get(products_df).rows) :
            LET r == Get(products_df).rows[i]
                id == r.product_id
                reviews == ReviewsOf(id)
                ratings == RatingsOf(id)
                rated == RatedOf(id)
            IN  /\ NonNull(r)
                /\ r.final_rating =
                      IF reviews # <<>> THEN mean(ratings)
                      ELSE ListedOrZero(Listing(id).rating)
                /\ r.final_review_count =
                      IF reviews # <<>> THEN Len(rated)
                      ELSE ListedOrZero(Listing(id).reviews)
                /\ reviews = <<>> => r.avg_sentiment = 0

\* C17, amended: the same, with final_rating the mean of the ratings of the
\* product's reviews when at least one of them has a rating, and the listed
\* rating, else 0, when the product has no review or none with a rating.
C17_FallbackPolicyRated ==
    Built =>
        \A i \in 1..Len(Get(products_df).rows) :
            LET r == Get(products_df).rows[i]
                id == r.product_id
                reviews == ReviewsOf(id)
                ratings == RatingsOf(id)
                rated == RatedOf(id)
            IN  /\ NonNull(r)
                /\ r.final_rating =
                      IF rated # <<>> THEN mean(ratings)
                      ELSE ListedOrZero(Listing(id).rating)
                /\ r.final_review_count =
                      IF reviews # <<>> THEN Len(rated)
                      ELSE ListedOrZero(Listing(id).reviews)
                /\ reviews = <<>> => r.avg_sentiment = 0

\* a built catalog with a product rated by its reviews, one whose reviews
\* have no rating, one without reviews and listed values, and one with
\* neither
C17_Witness ==
    /\ Built
    /\ \E i \in 1..Len(Get(products_df).rows) :
          LET id == Get(products_df).rows[i].product_id
          IN  RatedOf(id) # <<>> /\ Len(RatedOf(id)) < Len(ReviewsOf(id))
    /\ \E i \in 1..Len(Get(products_df).rows) :
          LET id == Get(products_df).rows[i].product_id
          IN  ReviewsOf(id) # <<>> /\ RatedOf(id) = <<>>
    /\ \E i \in 1..Len(Get(products_df).rows) :
          LET id == Get(products_df).rows[i].product_id
          IN  ReviewsOf(id) = <<>> /\ ~isnan(Listing(id).rating)
    /\ \E i \in 1..Len(Get(products_df).rows) :
          LET id == Get(products_df).rows[i].product_id
          IN  /\ ReviewsOf(id) = <<>>
              /\ isnan(Listing(id).rating)
              /\ isnan(Listing(id).reviews)

====
